---- MODULE Spec2Model ----
(***************************************************************************)
(* A model of src/language_stats.py: the paginated repository listing and  *)
(* the per-repository language aggregation of get_language_stats, the      *)
(* ranking of calculate_percentages, the rendering of                      *)
(* format_stats_markdown, the marker splice of update_readme, and the exit *)
(* paths of main.                                                          *)
(*                                                                         *)
(* Data representation.                                                    *)
(*  - A Python dict is a sequence of [lang, bytes] entries with distinct   *)
(*    keys, in insertion order (dicts iterate in insertion order).         *)
(*  - A repository record carries its fork flag and, standing for its      *)
(*    languages_url, what the server answers on that URL (status, body).   *)
(*  - A float percentage (bytes / total) * 100 is kept as the exact        *)
(*    fraction num / den with num = bytes * 100 and den = total; the       *)
(*    rounding of IEEE doubles is not modelled.                            *)
(*  - A document is a sequence of tokens: the start marker literal, the    *)
(*    end marker literal, a '-->' that belongs to no marker, a stretch of  *)
(*    other text, the blank line the splice inserts, and the body of a     *)
(*    statistics section.  Both marker literals end in '-->'.  Other text  *)
(*    and rendered tables are taken to contain no '-->' and no piece of a  *)
(*    marker, and rendered tables no backslash.                            *)
(***************************************************************************)
EXTENDS Integers, Sequences, FiniteSets, TLC

VARIABLES
    pc,              \* position of main / get_language_stats
    page,            \* get_language_stats: page
    all_repos,       \* get_language_stats: all_repos
    idx,             \* get_language_stats: position of the for loop in all_repos
    language_bytes,  \* get_language_stats: language_bytes, then main's language_bytes
    returned,        \* what get_language_stats returned: "pending", "None" or "dict"
    requested,       \* page numbers requested from repos_url, in order
    served,          \* the server's answers to those requests, in order
    fetched,         \* indexes (in all_repos) of the repositories whose languages_url was fetched
    percentages,     \* result of calculate_percentages
    raised,          \* uncaught exception, "" when none
    exit_code,       \* -1 while running, then the process's exit code
    readme,          \* the file README.md: [exists, content]
    reads,           \* number of times README.md was opened for reading
    writes,          \* number of times README.md was written
    applied,         \* the calls of update_readme so far: [stats, before, after]
    printed          \* the messages printed to standard output, in order

vars == <<pc, page, all_repos, idx, language_bytes, returned, requested, served,
          fetched, percentages, raised, exit_code, readme, reads, writes, applied,
                   printed>>

(***************************************************************************)
(* Bounds of the model.                                                    *)
(***************************************************************************)
MaxRepos == 2      \* repositories the server lists in all
MaxBytes == 1      \* largest byte count a language endpoint reports
MaxRankBytes == 2  \* largest byte count in a mapping handed to calculate_percentages
MaxDocLen == 5     \* tokens in an initial document
MaxRuns == 2       \* calls of update_readme on one document

Languages == {"Python", "C"}
RankLanguages == {"Python", "C", "Go"}

(***************************************************************************)
(* Program constants.                                                      *)
(***************************************************************************)
HTTP_OK == 200
bar_length == 20
KB == 1024

\* the statuses the server answers: success, and one that is not
Statuses == {HTTP_OK, 403}

SeqsUpTo(S, n) == UNION {[1..k -> S] : k \in 0..n}

(***************************************************************************)
(* Dicts in insertion order.                                               *)
(***************************************************************************)
Keys(m) == {m[i].lang : i \in DOMAIN m}

DistinctKeys(m) == \A i, j \in DOMAIN m : i # j => m[i].lang # m[j].lang

\* defaultdict(int): a missing key reads as 0
Get(m, l) ==
    IF l \in Keys(m) THEN m[CHOOSE i \in DOMAIN m : m[i].lang = l].bytes ELSE 0

\* language_bytes[lang] += bytes_count
Add(m, l, n) ==
    IF l \in Keys(m)
    THEN [i \in DOMAIN m |->
            IF m[i].lang = l THEN [lang |-> l, bytes |-> m[i].bytes + n] ELSE m[i]]
    ELSE Append(m, [lang |-> l, bytes |-> n])

\* for lang, bytes_count in languages.items(): language_bytes[lang] += bytes_count
RECURSIVE AddAll(_, _)
AddAll(m, languages) ==
    IF languages = <<>> THEN m
    ELSE AddAll(Add(m, Head(languages).lang, Head(languages).bytes), Tail(languages))

(***************************************************************************)
(* The server.  A language endpoint answers a status and, on 200, a JSON   *)
(* object of byte counts; a listing request answers a status and, on 200,  *)
(* a JSON array of repository records.                                     *)
(***************************************************************************)
LangEntries == [lang : Languages, bytes : 0..MaxBytes]

LangMaps == {m \in SeqsUpTo(LangEntries, Cardinality(Languages)) : DistinctKeys(m)}

\* The repository records the server lists.  The endpoint of a non-fork
\* answers any language map or fails; the endpoint of a fork, which the program
\* never consults, would answer a map of at most one language.
Repos ==
    [fork : {FALSE}, status : {HTTP_OK}, languages : LangMaps]
    \cup [fork : {FALSE}, status : Statuses \ {HTTP_OK}, languages : {<<>>}]
    \cup [fork : {TRUE}, status : {HTTP_OK},
          languages : {m \in LangMaps : Len(m) <= 1}]

\* the records whose endpoint answers no language: a fork, a non-fork whose
\* fetch succeeds and a non-fork whose fetch fails
BareRepos == {r \in Repos : r.languages = <<>>}

(***************************************************************************)
(* get_language_stats: the pagination loop.                                *)
(***************************************************************************)
\* faulty variant: the status of the listing answer is not looked at
NeverFailed(status) == FALSE

\* if response.status_code != 200: ... return None
ListingFailed(status) == status # HTTP_OK

\* faulty variant: the loop stops at a page of fewer than two records
ShortPage(repos) == Len(repos) < 2

\* repos = response.json(); if not repos: break
LastPage(repos) == repos = <<>>

\* One iteration of the while loop: the request of page `page`, the server's
\* answer and what the loop does with it.  The server lists at most MaxRepos
\* repositories in all, so it ends the listing with an empty page or a failure.
RequestPageOf(records) ==
    /\ pc = "list"
    /\ \E status \in Statuses, repos \in SeqsUpTo(records, MaxRepos - Len(all_repos)) :
        /\ status # HTTP_OK => repos = <<>>
        /\ requested' = Append(requested, page)
        /\ served' = Append(served, [status |-> status, repos |-> repos])
        /\ IF ListingFailed(status)
           THEN /\ printed' = printed \o <<"listing failed", "response">>
                /\ returned' = "None"
                /\ pc' = "main"
                /\ UNCHANGED <<all_repos, page>>
           ELSE IF LastPage(repos)
           THEN /\ pc' = "aggregate"
                /\ UNCHANGED <<all_repos, page, returned, printed>>
           ELSE /\ all_repos' = all_repos \o repos
                /\ page' = page + 1
                /\ UNCHANGED <<pc, returned, printed>>
    /\ UNCHANGED <<idx, language_bytes, fetched, percentages, raised, exit_code,
                   readme, reads, writes, applied>>

RequestPage == RequestPageOf(Repos)

(***************************************************************************)
(* get_language_stats: the aggregation loop.                               *)
(***************************************************************************)
\* faulty variant: forks are aggregated like any other repository
SkipsNothing(repo) == FALSE

\* if repo['fork']: continue
Skipped(repo) == repo.fork

\* if response.status_code == 200: sum the languages; otherwise nothing
Aggregated(m, repo) ==
    IF repo.status = HTTP_OK THEN AddAll(m, repo.languages) ELSE m

\* faulty variant: a failing language fetch ends the loop
LoopBreaksOnFailure(i, repo) ==
    IF ~repo.fork /\ repo.status # HTTP_OK THEN Len(all_repos) + 1 ELSE i + 1

\* for repo in all_repos: the loop goes on to the next repository whatever the
\* answer of the language endpoint was
NextRepo(i, repo) == i + 1

\* One iteration of the for loop.
AggregateStep ==
    /\ pc = "aggregate"
    /\ idx <= Len(all_repos)
    /\ LET repo == all_repos[idx] IN
        /\ IF Skipped(repo)
           THEN UNCHANGED <<fetched, language_bytes>>
           ELSE /\ fetched' = Append(fetched, idx)
                /\ language_bytes' = Aggregated(language_bytes, repo)
        /\ idx' = NextRepo(idx, repo)
    /\ UNCHANGED <<pc, page, all_repos, returned, requested, served, percentages,
                   raised, exit_code, readme, reads, writes, applied, printed>>

\* return dict(language_bytes)
AggregateReturn ==
    /\ pc = "aggregate"
    /\ idx > Len(all_repos)
    /\ returned' = "dict"
    /\ pc' = "main"
    /\ UNCHANGED <<page, all_repos, idx, language_bytes, requested, served, fetched,
                   percentages, raised, exit_code, readme, reads, writes, applied,
                   printed>>

(***************************************************************************)
(* calculate_percentages.                                                  *)
(***************************************************************************)
\* sum(language_bytes.values())
RECURSIVE total_bytes(_)
total_bytes(m) == IF m = <<>> THEN 0 ELSE Head(m).bytes + total_bytes(Tail(m))

\* p >= q for fractions with positive denominators
PercentGE(p, q) == p.num * q.den >= q.num * p.den

\* list.sort(key=lambda x: x[1], reverse=True) is stable: entries with equal
\* keys keep their order.  x goes behind every entry whose key is >= its own.
RECURSIVE InsertDescending(_, _)
InsertDescending(s, x) ==
    IF s = <<>> THEN <<x>>
    ELSE IF PercentGE(Head(s).percent, x.percent)
         THEN <<Head(s)>> \o InsertDescending(Tail(s), x)
         ELSE <<x>> \o s

RECURSIVE SortDescending(_)
SortDescending(s) ==
    IF s = <<>> THEN <<>>
    ELSE InsertDescending(SortDescending(SubSeq(s, 1, Len(s) - 1)), s[Len(s)])

\* [raised, value]: the exception the call raises ("" when none) and its result
calculate_percentages(m) ==
    IF m = <<>> THEN [raised |-> "", value |-> <<>>]
    ELSE LET total == total_bytes(m) IN
         IF total = 0
         THEN [raised |-> "ZeroDivisionError", value |-> <<>>]
         ELSE [raised |-> "",
               value |-> SortDescending(
                   [i \in DOMAIN m |->
                       [lang |-> m[i].lang,
                        percent |-> [num |-> m[i].bytes * 100, den |-> total],
                        bytes |-> m[i].bytes]])]

(***************************************************************************)
(* format_stats_markdown.  The text is kept as [table, rows]: table is     *)
(* FALSE for the fixed "no data" message, and a row holds the language,    *)
(* the percentage in hundredths, the filled length of the bar, and the     *)
(* size in hundredths of its unit (whole bytes for "bytes").               *)
(***************************************************************************)
\* f"{x:.2f}" of the fraction n / d, in hundredths
Hundredths(n, d) == (2 * 100 * n + d) \div (2 * d)

SizeOf(bytes_count) ==
    IF bytes_count >= KB * KB
    THEN [unit |-> "MB", value |-> Hundredths(bytes_count, KB * KB)]
    ELSE IF bytes_count >= KB
    THEN [unit |-> "KB", value |-> Hundredths(bytes_count, KB)]
    ELSE [unit |-> "bytes", value |-> bytes_count]

\* int(bar_length * percent / 100)
FilledLength(percent) == (bar_length * percent.num) \div (100 * percent.den)

NoDataMessage == [table |-> FALSE, rows |-> <<>>]

format_stats_markdown(ps) ==
    IF ps = <<>> THEN NoDataMessage
    ELSE [table |-> TRUE,
          rows |-> [i \in DOMAIN ps |->
                      [lang |-> ps[i].lang,
                       percent |-> Hundredths(ps[i].percent.num, ps[i].percent.den),
                       filled |-> FilledLength(ps[i].percent),
                       size |-> SizeOf(ps[i].bytes)]]]

(***************************************************************************)
(* update_readme.                                                          *)
(***************************************************************************)
Tok(k) == [kind |-> k, md |-> NoDataMessage]

start_marker == Tok("start")
end_marker == Tok("end")

\* f"{start_marker}\n## ...\n\n{stats_markdown}\n\n{end_marker}"
stats_section(stats_markdown) ==
    <<start_marker, [kind |-> "stats", md |-> stats_markdown], end_marker>>

\* marker in content
Contains(content, marker) == \E i \in DOMAIN content : content[i] = marker

\* the tokens that end in '-->'
EndsInClose(tok) == tok.kind \in {"start", "end", "close"}

\* content.find(marker, from)
Find(content, marker, from) ==
    IF \E i \in from..Len(content) : content[i] = marker
    THEN CHOOSE i \in from..Len(content) :
            /\ content[i] = marker
            /\ \A j \in from..(i - 1) : content[j] # marker
    ELSE 0

\* re.sub(start.*?end, section, content, flags=re.DOTALL) from position `from`
\* on: every leftmost non-overlapping match is replaced.
RECURSIVE re_sub_from(_, _, _)
re_sub_from(content, section, from) ==
    LET s == Find(content, start_marker, from)
        e == IF s = 0 THEN 0 ELSE Find(content, end_marker, s + 1)
    IN  IF e = 0
        THEN SubSeq(content, from, Len(content))
        ELSE SubSeq(content, from, s - 1) \o section
             \o re_sub_from(content, section, e + 1)

\* faulty variant: re.sub(..., count=1), only the first match is replaced
re_sub_first(content, section) ==
    LET s == Find(content, start_marker, 1)
        e == IF s = 0 THEN 0 ELSE Find(content, end_marker, s + 1)
    IN  IF e = 0 THEN content
        ELSE SubSeq(content, 1, s - 1) \o section
             \o SubSeq(content, e + 1, Len(content))

re_sub(content, section) == re_sub_from(content, section, 1)

\* faulty variant: content.split('-->', 1), the first '-->'
split_first(content) ==
    CHOOSE i \in DOMAIN content :
        /\ EndsInClose(content[i])
        /\ \A j \in 1..(i - 1) : ~EndsInClose(content[j])

\* content.rsplit('-->', 1): the position of the token holding the last '-->'
rsplit(content) ==
    CHOOSE i \in DOMAIN content :
        /\ EndsInClose(content[i])
        /\ \A j \in (i + 1)..Len(content) : ~EndsInClose(content[j])

\* except FileNotFoundError: content = "# GitHub Profile\n\n"
ReadFile(file) == IF file.exists THEN file.content ELSE <<Tok("text")>>

\* the content update_readme writes back
update_readme(stats_markdown, file) ==
    LET content == ReadFile(file)
        section == stats_section(stats_markdown)
    IN  IF Contains(content, start_marker) /\ Contains(content, end_marker)
        THEN re_sub(content, section)
        ELSE IF \E i \in DOMAIN content : EndsInClose(content[i])
        THEN LET k == rsplit(content) IN
             SubSeq(content, 1, k) \o <<Tok("blank")>> \o section
             \o SubSeq(content, k + 1, Len(content))
        ELSE content \o <<Tok("blank")>> \o section

\* the read, the splice and the write of one call
UpdateReadme(stats_markdown) ==
    LET after == update_readme(stats_markdown, readme) IN
    /\ readme' = [exists |-> TRUE, content |-> after]
    /\ reads' = reads + 1
    /\ writes' = writes + 1
    /\ applied' = Append(applied, [stats |-> stats_markdown,
                                   before |-> ReadFile(readme),
                                   after |-> after])
    /\ printed' = Append(printed, "updated")

(***************************************************************************)
(* main.                                                                   *)
(***************************************************************************)
\* if language_bytes is None: sys.exit(1)
MainExitFailure ==
    /\ pc = "main"
    /\ returned = "None"
    /\ exit_code' = 1
    /\ pc' = "exited"
    /\ UNCHANGED <<page, all_repos, idx, language_bytes, returned, requested, served,
                   fetched, percentages, raised, readme, reads, writes, applied,
                   printed>>

\* faulty variant: the check for an empty mapping is missing
SkipsNoDataCheck(m) == FALSE

\* if not language_bytes
NoData(m) == m = <<>>

\* print(...); sys.exit(0)
MainExitNoData ==
    /\ pc = "main"
    /\ returned = "dict"
    /\ NoData(language_bytes)
    /\ printed' = Append(printed, "no language data")
    /\ exit_code' = 0
    /\ pc' = "exited"
    /\ UNCHANGED <<page, all_repos, idx, language_bytes, returned, requested, served,
                   fetched, percentages, raised, readme, reads, writes, applied>>

\* percentages = calculate_percentages(language_bytes); an exception it raises
\* is caught nowhere and ends the process with exit code 1
MainRank ==
    /\ pc = "main"
    /\ returned = "dict"
    /\ ~NoData(language_bytes)
    /\ LET r == calculate_percentages(language_bytes) IN
        IF r.raised # ""
        THEN /\ raised' = r.raised
             /\ exit_code' = 1
             /\ pc' = "exited"
             /\ UNCHANGED <<percentages, printed>>
        ELSE /\ percentages' = r.value
             /\ printed' = Append(printed, "language statistics")
             /\ pc' = "update"
             /\ UNCHANGED <<raised, exit_code>>
    /\ UNCHANGED <<page, all_repos, idx, language_bytes, returned, requested, served,
                   fetched, readme, reads, writes, applied>>

\* update_readme(format_stats_markdown(percentages)), then main returns
MainUpdate ==
    /\ pc = "update"
    /\ UpdateReadme(format_stats_markdown(percentages))
    /\ exit_code' = 0
    /\ pc' = "exited"
    /\ UNCHANGED <<page, all_repos, idx, language_bytes, returned, requested, served,
                   fetched, percentages, raised>>

(***************************************************************************)
(* The program: one run of main.                                           *)
(***************************************************************************)
DocTokens == {Tok("start"), Tok("end"), Tok("close"), Tok("text")}

Documents == SeqsUpTo(DocTokens, MaxDocLen)

Files ==
    {[exists |-> FALSE, content |-> <<>>]}
    \cup {[exists |-> TRUE, content |-> d] : d \in Documents}

Idle ==
    /\ page = 1
    /\ all_repos = <<>>
    /\ idx = 1
    /\ returned = "pending"
    /\ requested = <<>>
    /\ served = <<>>
    /\ fetched = <<>>
    /\ percentages = <<>>
    /\ raised = ""
    /\ exit_code = -1
    /\ reads = 0
    /\ writes = 0
    /\ applied = <<>>

\* main has printed the user name and that it is fetching
Init ==
    /\ pc = "list"
    /\ Idle
    /\ printed = <<"user", "fetching">>
    /\ language_bytes = <<>>
    /\ readme \in {[exists |-> FALSE, content |-> <<>>],
                   [exists |-> TRUE,
                    content |-> <<Tok("text"), Tok("start"), Tok("text"), Tok("end")>>]}

Next ==
    \/ RequestPage
    \/ AggregateStep
    \/ AggregateReturn
    \/ MainExitFailure
    \/ MainExitNoData
    \/ MainRank
    \/ MainUpdate

Spec == Init /\ [][Next]_vars

\* The pagination loop of get_language_stats on its own; it never looks into
\* a record, and the records listed here are the BareRepos.  The process is
\* never suspended for ever: a request that can be made is made.
ListerNext == RequestPageOf(BareRepos)

ListerSpec == Init /\ [][ListerNext]_vars /\ WF_vars(ListerNext)

(***************************************************************************)
(* calculate_percentages applied to every mapping within the bounds.       *)
(***************************************************************************)
RankEntries == [lang : RankLanguages, bytes : 0..MaxRankBytes]

RankMaps == {m \in SeqsUpTo(RankEntries, Cardinality(RankLanguages)) : DistinctKeys(m)}

RankInit ==
    /\ pc = "rank"
    /\ Idle
    /\ language_bytes \in RankMaps
    /\ printed = <<>>
    /\ readme = [exists |-> FALSE, content |-> <<>>]

CallCalculatePercentages ==
    /\ pc = "rank"
    /\ LET r == calculate_percentages(language_bytes) IN
        /\ percentages' = r.value
        /\ raised' = r.raised
    /\ pc' = "ranked"
    /\ UNCHANGED <<page, all_repos, idx, language_bytes, returned, requested, served,
                   fetched, exit_code, readme, reads, writes, applied, printed>>

RankNext == CallCalculatePercentages

RankSpec == RankInit /\ [][RankNext]_vars

(***************************************************************************)
(* update_readme applied, up to MaxRuns times in a row, to every document  *)
(* within the bounds.                                                      *)
(***************************************************************************)
Tables ==
    {format_stats_markdown(calculate_percentages(m).value) :
        m \in {<<[lang |-> "Python", bytes |-> 1]>>,
               <<[lang |-> "C", bytes |-> 1], [lang |-> "Python", bytes |-> 3]>>}}

SpliceInit ==
    /\ pc = "splice"
    /\ Idle
    /\ language_bytes = <<>>
    /\ printed = <<>>
    /\ readme \in Files

CallUpdateReadme ==
    /\ pc = "splice"
    /\ Len(applied) < MaxRuns
    /\ \E stats_markdown \in Tables : UpdateReadme(stats_markdown)
    /\ UNCHANGED <<pc, page, all_repos, idx, language_bytes, returned, requested,
                   served, fetched, percentages, raised, exit_code>>

SpliceNext == CallUpdateReadme

SpliceSpec == SpliceInit /\ [][SpliceNext]_vars

(***************************************************************************)
(* Claims about get_language_stats and main, checked under Spec.           *)
(***************************************************************************)
\* what repository `repo` should add to language l: its bytes of l when it is
\* no fork and its language fetch succeeded, nothing otherwise
Contribution(repo, l) ==
    IF ~repo.fork /\ repo.status = HTTP_OK THEN Get(repo.languages, l) ELSE 0

RECURSIVE ContributionsUpTo(_, _, _)
ContributionsUpTo(repos, n, l) ==
    IF n = 0 THEN 0
    ELSE ContributionsUpTo(repos, n - 1, l) + Contribution(repos[n], l)

Contributors(repos, l) ==
    {i \in DOMAIN repos :
        /\ ~repos[i].fork
        /\ repos[i].status = HTTP_OK
        /\ l \in Keys(repos[i].languages)}

\* C1: the mapping get_language_stats returns gives each language exactly the
\* sum of its byte counts over the non-fork repositories whose language fetch
\* succeeded (and holds no other language); the language endpoint of a fork is
\* never fetched, so a fork adds nothing whatever its endpoint would report.
C1_ForksExcluded ==
    /\ \A k \in DOMAIN fetched : ~all_repos[fetched[k]].fork
    /\ returned = "dict" =>
        /\ DistinctKeys(language_bytes)
        /\ \A l \in Languages :
            /\ Get(language_bytes, l) = ContributionsUpTo(all_repos, Len(all_repos), l)
            /\ l \in Keys(language_bytes) <=> Contributors(all_repos, l) # {}

C1_Witness ==
    /\ returned = "dict"
    /\ \E i, j \in DOMAIN all_repos :
        /\ all_repos[i].fork
        /\ Get(all_repos[i].languages, "Python") > 0
        /\ ~all_repos[j].fork
        /\ Get(all_repos[j].languages, "Python") > 0
    /\ Get(language_bytes, "Python") > 0

ListingFailure == \E k \in DOMAIN served : served[k].status # HTTP_OK

\* C2: once a listing request is answered with a non-success status, on the
\* first page or a later one, get_language_stats has returned None, no
\* language endpoint is ever fetched, the document is neither read nor
\* written, and the process exits with a non-zero code.
C2_ListingFailureAborts ==
    ListingFailure =>
        /\ returned = "None"
        /\ fetched = <<>>
        /\ language_bytes = <<>>
        /\ reads = 0
        /\ writes = 0
        /\ applied = <<>>
        /\ pc \in {"main", "exited"}
        /\ pc = "main" => ENABLED MainExitFailure
        /\ pc = "exited" => exit_code # 0

C2_Witness ==
    /\ pc = "exited"
    /\ Len(served) = 2
    /\ served[2].status # HTTP_OK
    /\ \E i \in DOMAIN all_repos :
        ~all_repos[i].fork /\ Get(all_repos[i].languages, "C") > 0

\* the repository sequence with every failing language endpoint answering an
\* empty language map instead
AsIfEmpty(repos) ==
    [i \in DOMAIN repos |->
        IF ~repos[i].fork /\ repos[i].status # HTTP_OK
        THEN [fork |-> FALSE, status |-> HTTP_OK, languages |-> <<>>]
        ELSE repos[i]]

\* the mapping built over the first n repositories when every language
\* endpoint answers: the language maps of the non-forks, summed in order
RECURSIVE AggregateUpTo(_, _)
AggregateUpTo(repos, n) ==
    IF n = 0 THEN <<>>
    ELSE IF repos[n].fork THEN AggregateUpTo(repos, n - 1)
    ELSE AddAll(AggregateUpTo(repos, n - 1), repos[n].languages)

NonForksBefore(n) == {i \in 1..(n - 1) : i \in DOMAIN all_repos /\ ~all_repos[i].fork}

\* C3: a language fetch answered with a non-success status does not abort the
\* aggregation: every non-fork repository, also those behind the failing one,
\* is fetched, once and in order, and the mapping returned is the one a run
\* would return in which the failing repositories reported an empty map.
C3_FailedFetchAddsNothing ==
    /\ pc = "aggregate" => returned = "pending" /\ idx \in 1..(Len(all_repos) + 1)
    /\ pc \in {"aggregate", "main", "update", "exited"} /\ returned # "None" =>
        /\ {fetched[k] : k \in DOMAIN fetched} = NonForksBefore(idx)
        /\ \A k \in 1..(Len(fetched) - 1) : fetched[k] < fetched[k + 1]
        /\ language_bytes = AggregateUpTo(AsIfEmpty(all_repos), idx - 1)
    /\ returned = "dict" =>
        /\ idx = Len(all_repos) + 1
        /\ language_bytes = AggregateUpTo(AsIfEmpty(all_repos), Len(all_repos))

C3_Witness ==
    /\ returned = "dict"
    /\ Len(all_repos) >= 2
    /\ ~all_repos[1].fork /\ all_repos[1].status # HTTP_OK
    /\ ~all_repos[2].fork /\ Get(all_repos[2].languages, "Python") > 0
    /\ fetched = <<1, 2>>
    /\ Get(language_bytes, "Python") > 0

\* C9: when the listing succeeded and the aggregated mapping is empty, main
\* prints its message and exits with code zero, and the document is neither
\* read nor written; the document is written only when the mapping returned
\* is not empty.
C9_EmptyMappingExitsZero ==
    /\ returned = "dict" /\ language_bytes = <<>> =>
        /\ reads = 0
        /\ writes = 0
        /\ pc \in {"main", "exited"}
        /\ pc = "main" => ENABLED MainExitNoData /\ ~ENABLED MainRank
        /\ pc = "exited" =>
            /\ exit_code = 0
            /\ printed[Len(printed)] = "no language data"
    /\ writes > 0 => returned = "dict" /\ language_bytes # <<>>
    /\ reads > 0 => returned = "dict" /\ language_bytes # <<>>

C9_Witness ==
    /\ pc = "exited"
    /\ returned = "dict"
    /\ language_bytes = <<>>
    /\ exit_code = 0
    /\ \E i, j \in DOMAIN all_repos :
        /\ all_repos[i].fork /\ all_repos[i].languages # <<>>
        /\ ~all_repos[j].fork /\ all_repos[j].status # HTTP_OK

(***************************************************************************)
(* The claim about the pagination loop, checked under ListerSpec.          *)
(***************************************************************************)
RECURSIVE ConcatPages(_, _)
ConcatPages(answers, n) ==
    IF n = 0 THEN <<>> ELSE ConcatPages(answers, n - 1) \o answers[n].repos

\* the answer ends the listing: an empty page or a non-success status
EndsListing(answer) == answer.status # HTTP_OK \/ answer.repos = <<>>

PaginationInOrder ==
    /\ Len(served) = Len(requested)
    /\ \A k \in DOMAIN requested : requested[k] = k
    /\ \A k \in 1..(Len(served) - 1) : ~EndsListing(served[k])
    /\ pc = "list" =>
        /\ page = Len(requested) + 1
        /\ \A k \in DOMAIN served : ~EndsListing(served[k])
    /\ pc # "list" =>
        /\ served # <<>>
        /\ EndsListing(served[Len(served)])
    /\ all_repos = ConcatPages(served, Len(served))
    /\ (served # <<>> /\ served[Len(served)].status = HTTP_OK
            /\ served[Len(served)].repos = <<>>) =>
        /\ pc # "list"
        /\ returned # "None"
        /\ all_repos = ConcatPages(served, Len(served) - 1)

\* C10: pages 1, 2, 3, ... are requested in increasing order, each once; no
\* page is requested after the first empty page (or failure); the repositories
\* collected are the pages before it, concatenated in order; and the loop
\* ends once the server answers an empty page or a non-success status.
C10_PaginationStopsAtFirstEmptyPage == []PaginationInOrder /\ <>(pc # "list")

C10_Witness ==
    /\ pc = "aggregate"
    /\ Len(requested) = 3
    /\ Len(served[1].repos) = 1
    /\ Len(served[2].repos) = 1
    /\ served[3].repos = <<>>
    /\ Len(all_repos) = 2

(***************************************************************************)
(* Claims about calculate_percentages, checked under RankSpec.             *)
(***************************************************************************)
RECURSIVE SumOfNumerators(_)
SumOfNumerators(ps) ==
    IF ps = <<>> THEN 0 ELSE Head(ps).percent.num + SumOfNumerators(Tail(ps))

\* one entry per language, every percentage in [0, 100], and the percentages
\* (fractions over one denominator) sum to 100
SumsTo100(m, ps) ==
    /\ Len(ps) = Len(m)
    /\ {ps[i].lang : i \in DOMAIN ps} = Keys(m)
    /\ \A i \in DOMAIN ps :
        /\ ps[i].percent.den > 0
        /\ ps[i].percent.den = ps[1].percent.den
        /\ 0 <= ps[i].percent.num
        /\ ps[i].percent.num <= 100 * ps[i].percent.den
    /\ SumOfNumerators(ps) = 100 * ps[1].percent.den

\* C7: for every non-empty mapping of non-negative byte counts, also one whose
\* values are all zero, calculate_percentages returns one entry per language,
\* every percentage in [0, 100], and the percentages sum to 100.
C7_PercentagesSumTo100 ==
    pc = "ranked" /\ language_bytes # <<>> =>
        /\ raised = ""
        /\ SumsTo100(language_bytes, percentages)

\* C7 holds of every mapping whose total is positive: the call fails only by
\* the division by a total of zero.
C7_ExceptZeroTotal ==
    pc = "ranked" /\ language_bytes # <<>> =>
        IF total_bytes(language_bytes) = 0
        THEN raised = "ZeroDivisionError"
        ELSE raised = "" /\ SumsTo100(language_bytes, percentages)

PositionOf(m, l) == CHOOSE i \in DOMAIN m : m[i].lang = l

\* sorted by percentage non-increasing, a permutation of the mapping's
\* entries, and entries of equal percentage in the mapping's order
RankedStable(m, ps) ==
    /\ \A i \in 1..(Len(ps) - 1) : PercentGE(ps[i].percent, ps[i + 1].percent)
    /\ Len(ps) = Len(m)
    /\ \A i \in DOMAIN m :
        \E j \in DOMAIN ps : ps[j].lang = m[i].lang /\ ps[j].bytes = m[i].bytes
    /\ \A i, j \in DOMAIN ps :
        (/\ i < j
         /\ PercentGE(ps[i].percent, ps[j].percent)
         /\ PercentGE(ps[j].percent, ps[i].percent))
        => PositionOf(m, ps[i].lang) < PositionOf(m, ps[j].lang)

\* C8: for every input mapping, calculate_percentages returns a sequence that
\* is sorted by percentage non-increasing, is a permutation of the mapping's
\* (language, bytes) entries, and keeps entries of equal percentage in the order
\* of the mapping; the empty mapping yields the empty sequence.
C8_RankedSortedStable ==
    pc = "ranked" =>
        /\ raised = ""
        /\ language_bytes = <<>> => percentages = <<>>
        /\ RankedStable(language_bytes, percentages)

\* C8 holds of every mapping on which the call returns: of the empty mapping
\* and of every mapping whose total is positive.
C8_ExceptZeroTotal ==
    pc = "ranked" =>
        IF language_bytes # <<>> /\ total_bytes(language_bytes) = 0
        THEN raised = "ZeroDivisionError"
        ELSE /\ raised = ""
             /\ language_bytes = <<>> => percentages = <<>>
             /\ RankedStable(language_bytes, percentages)

(***************************************************************************)
(* Claims about update_readme, checked under SpliceSpec.                   *)
(***************************************************************************)
FirstIndex(d, tok) ==
    CHOOSE i \in DOMAIN d : d[i] = tok /\ \A j \in 1..(i - 1) : d[j] # tok

BothMarkers(d) == (\E i \in DOMAIN d : d[i] = start_marker)
                  /\ (\E i \in DOMAIN d : d[i] = end_marker)

\* d with the span s..e replaced by section
Replaced(d, s, e, section) ==
    SubSeq(d, 1, s - 1) \o section \o SubSeq(d, e + 1, Len(d))

\* C4 (as claimed): with both markers in the document, exactly the span from
\* the first start marker to the first end marker is replaced by the new
\* section and everything outside that one span is kept, also in a document of
\* more than one marker pair.
C4_FirstSpanOnly ==
    \A k \in DOMAIN applied :
        LET d == applied[k].before
            s == FirstIndex(d, start_marker)
            e == FirstIndex(d, end_marker)
        IN  (BothMarkers(d) /\ s < e) =>
                applied[k].after = Replaced(d, s, e, stats_section(applied[k].stats))

\* A start marker at i opens a span when an end marker follows it and every
\* start marker before it is closed by an end marker before i.
OpensSpan(d, i) ==
    /\ d[i] = start_marker
    /\ \E j \in (i + 1)..Len(d) : d[j] = end_marker
    /\ \A k \in 1..(i - 1) :
        d[k] = start_marker => \E j \in (k + 1)..(i - 1) : d[j] = end_marker

\* inside a span, behind its start marker, up to its end marker
InsideSpan(d, p) ==
    \E i \in 1..(p - 1) :
        /\ OpensSpan(d, i)
        /\ \A j \in (i + 1)..(p - 1) : d[j] # end_marker

\* d with every span replaced by section, token by token
RECURSIVE SpansReplaced(_, _, _)
SpansReplaced(d, section, p) ==
    IF p > Len(d) THEN <<>>
    ELSE (IF OpensSpan(d, p) THEN section
          ELSE IF InsideSpan(d, p) THEN <<>>
          ELSE <<d[p]>>) \o SpansReplaced(d, section, p + 1)

\* C4 (amended): with both markers in the document, every span from a start
\* marker to the nearest end marker behind it, taken from left to right
\* without overlap, is replaced by the new section, and everything outside
\* those spans is kept; a document in which no end marker follows a start
\* marker is left unchanged; and when the document holds one start marker and
\* one end marker behind it, the one span replaced is the claimed one.
C4_EverySpanReplaced ==
    \A k \in DOMAIN applied :
        LET d == applied[k].before
            section == stats_section(applied[k].stats)
            s == FirstIndex(d, start_marker)
            e == FirstIndex(d, end_marker)
        IN  BothMarkers(d) =>
            /\ applied[k].after = SpansReplaced(d, section, 1)
            /\ (\A i \in DOMAIN d : ~OpensSpan(d, i)) => applied[k].after = d
            /\ (/\ s < e
                /\ \A i \in DOMAIN d : d[i] = start_marker => i = s
                /\ \A i \in DOMAIN d : d[i] = end_marker => i = e)
               => applied[k].after = Replaced(d, s, e, section)

C4_Witness ==
    \E k \in DOMAIN applied :
        LET d == applied[k].before IN
        /\ BothMarkers(d)
        /\ Cardinality({i \in DOMAIN d : OpensSpan(d, i)}) = 2
        /\ \E i \in DOMAIN d : d[i] = Tok("text") /\ ~InsideSpan(d, i)
        /\ Len(applied[k].after) = 7

NoMarkers(d) == \A i \in DOMAIN d : d[i] # start_marker /\ d[i] # end_marker

HasClose(d) == \E i \in DOMAIN d : d[i] = Tok("close")

\* d with a blank line and section inserted behind position k
InsertedAfter(d, k, section) ==
    SubSeq(d, 1, k) \o <<Tok("blank")>> \o section \o SubSeq(d, k + 1, Len(d))

\* C5 (as claimed): with no marker in the document, the new section is
\* inserted right behind the first '-->', a blank line between them, and the
\* text before and behind is kept; without any '-->' the section is appended
\* behind a blank line.
C5_AfterFirstClose ==
    \A k \in DOMAIN applied :
        LET d == applied[k].before
            section == stats_section(applied[k].stats)
        IN  NoMarkers(d) =>
                IF HasClose(d)
                THEN applied[k].after =
                        InsertedAfter(d, FirstIndex(d, Tok("close")), section)
                ELSE applied[k].after = d \o <<Tok("blank")>> \o section

\* C5 (amended): with no marker in the document, the new section is inserted
\* right behind the last '-->', a blank line between them, and the text before
\* and behind is kept; without any '-->' the section is appended behind a
\* blank line.
C5_AfterLastClose ==
    \A k \in DOMAIN applied :
        LET d == applied[k].before
            section == stats_section(applied[k].stats)
        IN  NoMarkers(d) =>
                IF HasClose(d)
                THEN \E last \in DOMAIN d :
                        /\ d[last] = Tok("close")
                        /\ \A j \in (last + 1)..Len(d) : d[j] # Tok("close")
                        /\ applied[k].after = InsertedAfter(d, last, section)
                ELSE applied[k].after = d \o <<Tok("blank")>> \o section

C5_Witness ==
    \E k \in DOMAIN applied :
        LET d == applied[k].before IN
        /\ NoMarkers(d)
        /\ d = <<Tok("text"), Tok("close"), Tok("text"), Tok("close")>>
        /\ applied[k].after[5] = Tok("blank")
        /\ applied[k].after[6] = start_marker

\* C6: for every starting document (no marker, one pair, one marker alone,
\* pairs repeated, markers in inverse order) and every rendered table, a second
\* update_readme with the same table leaves the document as the first left it.
C6_Idempotent ==
    \A k \in 2..Len(applied) :
        applied[k].stats = applied[k - 1].stats =>
            applied[k].after = applied[k - 1].after

\* The second call undoes nothing of the first except when the document held
\* a start marker and no end marker.
C6_ExceptLoneStartMarker ==
    \A k \in 2..Len(applied) :
        LET d == applied[k - 1].before IN
        (/\ applied[k].stats = applied[k - 1].stats
         /\ ~((\E i \in DOMAIN d : d[i] = start_marker)
              /\ (\A i \in DOMAIN d : d[i] # end_marker)))
        => applied[k].after = applied[k - 1].after

====
